---- MODULE Spec2Model ----
(***************************************************************************)
(* EvmArgs / EnvArgs (common/src/evm.rs): the command line overlay of the  *)
(* EVM settings, its figment Provider implementation and ensure_fork_url.  *)
(*                                                                         *)
(* Option<T> is a sequence of length at most one: None is <<>>, Some(x) is *)
(* <<x>>.  A figment Value is a pair <<tag, payload>>.  A Dict is a        *)
(* function from key strings to Values.                                    *)
(***************************************************************************)
EXTENDS Integers, Sequences, FiniteSets, TLC

VARIABLES
    profile,      \* Config::selected_profile(), fixed by the environment
    base,         \* the base figment: Map<Profile, Dict>
    pending,      \* the fields collected so far (command line or literal)
    nargs,        \* number of arguments consumed so far
    vreps,        \* number of verbosity flags on the command line
    status,       \* "building", "accepted", "rejected" or "literal"
    args,         \* Option<EvmArgs>: the constructed overlay
    ncalls,       \* number of data / ensure_fork_url calls made so far
    data_first,   \* Option<Result>: what the first call of data returned
    data_last,    \* Option<Result>: what the latest call of data returned
    fork_first,   \* Option<Result>: first outcome of ensure_fork_url
    fork_last,    \* Option<Result>: latest outcome of ensure_fork_url
    figment,      \* Option<Map<Profile, Dict>>: the figment after the merge
    config        \* Option<Config>: the configuration extracted from it

vars == <<profile, base, pending, nargs, vreps, status, args, ncalls,
          data_first, data_last, fork_first, fork_last, figment, config>>

----------------------------------------------------------------------------
(* Bounds *)

MaxArgs == 2

MaxReps == 257

MaxCalls == 3

----------------------------------------------------------------------------
(* Option and Value *)

None == <<>>

Some(x) == <<x>>

VString(s) == <<"String", s>>

VNum(n) == <<"Num", n>>

VBool(b) == <<"Bool", b>>

VEmptyNone == <<"Empty", "None">>

VDict(d) == <<"Dict", d>>

EmptyDict == <<>>

Insert(d, k, v) == [x \in DOMAIN d \cup {k} |-> IF x = k THEN v ELSE d[x]]

U8Max == 255

SaturatingAdd(n) == IF n + 1 > U8Max THEN U8Max ELSE n + 1

----------------------------------------------------------------------------
(* The fields of EvmArgs and EnvArgs *)

EvmOptFields ==
    {"fork_url", "fork_block_number", "fork_retry_backoff", "initial_balance",
     "sender", "compute_units_per_second"}

EvmBoolFields == {"no_storage_caching", "ffi", "no_rpc_rate_limit"}

EnvOptFields ==
    {"gas_limit", "code_size_limit", "chain_id", "gas_price",
     "block_base_fee_per_gas", "tx_origin", "block_coinbase",
     "block_timestamp", "block_number", "block_difficulty",
     "block_prevrandao", "block_gas_limit", "memory_limit"}

Urls == {"http://a", "http://b"}

Chains == {"mainnet", "goerli"}

FieldValues(f) ==
    CASE f = "fork_url" -> Urls
      [] f = "chain_id" -> Chains
      [] f \in {"sender", "tx_origin", "block_coinbase"} -> {"0x01"}
      [] f \in {"initial_balance", "block_prevrandao"} -> {"0xff"}
      [] f = "memory_limit" -> {100}
      [] f = "compute_units_per_second" -> {500}
      [] OTHER -> {7}

EnvArgsDefault == [f \in EnvOptFields |-> None]

EvmArgsDefault ==
    [fork_url |-> None, fork_block_number |-> None,
     fork_retry_backoff |-> None, no_storage_caching |-> FALSE,
     initial_balance |-> None, sender |-> None, ffi |-> FALSE,
     verbosity |-> 0, env |-> EnvArgsDefault,
     compute_units_per_second |-> None, no_rpc_rate_limit |-> FALSE]

(* A requires table that lost the entry of compute_units_per_second. *)
RequiresForkUrlNoCups ==
    {"fork_block_number", "fork_retry_backoff", "no_rpc_rate_limit"}

(* The arguments declared with requires = "fork_url". *)
RequiresForkUrl ==
    {"fork_block_number", "fork_retry_backoff", "compute_units_per_second",
     "no_rpc_rate_limit"}

Present(self, f) ==
    IF f \in EvmBoolFields THEN self[f] = TRUE
    ELSE IF f = "verbosity" THEN self[f] > 0
    ELSE IF f \in EnvOptFields THEN self.env[f] # None
    ELSE self[f] # None

RequiresSatisfied(self) ==
    \A f \in RequiresForkUrl : Present(self, f) => Present(self, "fork_url")

----------------------------------------------------------------------------
(* #[derive(Serialize)] *)

(* #[serde(skip_serializing_if = "Option::is_none")] *)
SerOpt(d, key, opt, tag) ==
    IF opt = None THEN d ELSE Insert(d, key, <<tag, opt[1]>>)

(* An Option field without skip_serializing_if: None is written as the
   empty value. *)
SerAlways(d, key, opt, tag) ==
    Insert(d, key, IF opt = None THEN VEmptyNone ELSE <<tag, opt[1]>>)

(* A hard-coded default written where the field is None. *)
SerOrDefault(d, key, opt, tag) ==
    Insert(d, key, IF opt = None THEN <<tag, 0>> ELSE <<tag, opt[1]>>)

(* EnvArgs with chain_id marked #[serde(skip)]. *)
SerializeEnvSkipChain(d, env) ==
    LET d1  == SerOpt(d,   "gas_limit", env.gas_limit, "Num")
        d2  == SerOpt(d1,  "code_size_limit", env.code_size_limit, "Num")
        d4  == SerOpt(d2,  "gas_price", env.gas_price, "Num")
        d5  == SerOpt(d4,  "block_base_fee_per_gas",
                      env.block_base_fee_per_gas, "Num")
        d6  == SerOpt(d5,  "tx_origin", env.tx_origin, "String")
        d7  == SerOpt(d6,  "block_coinbase", env.block_coinbase, "String")
        d8  == SerOpt(d7,  "block_timestamp", env.block_timestamp, "Num")
        d9  == SerOpt(d8,  "block_number", env.block_number, "Num")
        d10 == SerOpt(d9,  "block_difficulty", env.block_difficulty, "Num")
        d11 == SerOpt(d10, "block_prevrandao", env.block_prevrandao, "String")
        d12 == SerOpt(d11, "block_gas_limit", env.block_gas_limit, "Num")
    IN  SerOpt(d12, "memory_limit", env.memory_limit, "Num")

(* EnvArgs with memory_limit written as 0 when it is None. *)
SerializeEnvMemDefault(d, env) ==
    LET d1  == SerOpt(d,   "gas_limit", env.gas_limit, "Num")
        d2  == SerOpt(d1,  "code_size_limit", env.code_size_limit, "Num")
        d3  == SerOpt(d2,  "chain_id", env.chain_id, "String")
        d4  == SerOpt(d3,  "gas_price", env.gas_price, "Num")
        d5  == SerOpt(d4,  "block_base_fee_per_gas",
                      env.block_base_fee_per_gas, "Num")
        d6  == SerOpt(d5,  "tx_origin", env.tx_origin, "String")
        d7  == SerOpt(d6,  "block_coinbase", env.block_coinbase, "String")
        d8  == SerOpt(d7,  "block_timestamp", env.block_timestamp, "Num")
        d9  == SerOpt(d8,  "block_number", env.block_number, "Num")
        d10 == SerOpt(d9,  "block_difficulty", env.block_difficulty, "Num")
        d11 == SerOpt(d10, "block_prevrandao", env.block_prevrandao, "String")
        d12 == SerOpt(d11, "block_gas_limit", env.block_gas_limit, "Num")
    IN  SerOrDefault(d12, "memory_limit", env.memory_limit, "Num")

(* EnvArgs, flattened into the map of the enclosing struct. *)
SerializeEnv(d, env) ==
    LET d1  == SerOpt(d,   "gas_limit", env.gas_limit, "Num")
        d2  == SerOpt(d1,  "code_size_limit", env.code_size_limit, "Num")
        d3  == SerOpt(d2,  "chain_id", env.chain_id, "String")
        d4  == SerOpt(d3,  "gas_price", env.gas_price, "Num")
        d5  == SerOpt(d4,  "block_base_fee_per_gas",
                      env.block_base_fee_per_gas, "Num")
        d6  == SerOpt(d5,  "tx_origin", env.tx_origin, "String")
        d7  == SerOpt(d6,  "block_coinbase", env.block_coinbase, "String")
        d8  == SerOpt(d7,  "block_timestamp", env.block_timestamp, "Num")
        d9  == SerOpt(d8,  "block_number", env.block_number, "Num")
        d10 == SerOpt(d9,  "block_difficulty", env.block_difficulty, "Num")
        d11 == SerOpt(d10, "block_prevrandao", env.block_prevrandao, "String")
        d12 == SerOpt(d11, "block_gas_limit", env.block_gas_limit, "Num")
    IN  SerOpt(d12, "memory_limit", env.memory_limit, "Num")

(* EvmArgs with the rename of fork_url missing. *)
SerializeNoRename(self) ==
    LET d1 == SerOpt(EmptyDict, "fork_url", self.fork_url, "String")
        d2 == SerOpt(d1, "fork_block_number", self.fork_block_number, "Num")
        d3 == SerOpt(d2, "fork_retry_backoff", self.fork_retry_backoff, "Num")
        d4 == SerOpt(d3, "initial_balance", self.initial_balance, "String")
        d5 == SerOpt(d4, "sender", self.sender, "String")
        d6 == SerializeEnv(d5, self.env)
    IN  VDict(SerAlways(d6, "compute_units_per_second",
                        self.compute_units_per_second, "Num"))

(* Value::serialize(self): the fields in declaration order; the fields
   marked #[serde(skip)] (no_storage_caching, ffi, verbosity,
   no_rpc_rate_limit) are not written. *)
Serialize(self) ==
    LET d1 == SerOpt(EmptyDict, "eth_rpc_url", self.fork_url, "String")
        d2 == SerOpt(d1, "fork_block_number", self.fork_block_number, "Num")
        d3 == SerOpt(d2, "fork_retry_backoff", self.fork_retry_backoff, "Num")
        d4 == SerOpt(d3, "initial_balance", self.initial_balance, "String")
        d5 == SerOpt(d4, "sender", self.sender, "String")
        d6 == SerializeEnv(d5, self.env)
    IN  VDict(SerAlways(d6, "compute_units_per_second",
                        self.compute_units_per_second, "Num"))

(* Value::into_dict *)
into_dict(value) == IF value[1] = "Dict" THEN Some(value[2]) ELSE None

Ok(x) == [ok |-> TRUE, val |-> x]

Err(e) == [ok |-> FALSE, val |-> e]

----------------------------------------------------------------------------
(* impl Provider for EvmArgs *)

(* The verbosity is written only from the second level on. *)
insert_verbosity_gt1(dict, self) ==
    IF self.verbosity > 1
    THEN Insert(dict, "verbosity", VNum(self.verbosity))
    ELSE dict

(* if self.verbosity > 0 { dict.insert("verbosity", ...) } *)
insert_verbosity(dict, self) ==
    IF self.verbosity > 0
    THEN Insert(dict, "verbosity", VNum(self.verbosity))
    ELSE dict

(* The ffi flag written whatever its value. *)
insert_ffi_always(dict, self) == Insert(dict, "ffi", VBool(self.ffi))

(* if self.ffi { dict.insert("ffi", ...) } *)
insert_ffi(dict, self) ==
    IF self.ffi THEN Insert(dict, "ffi", VBool(self.ffi)) ELSE dict

(* if self.no_storage_caching { dict.insert("no_storage_caching", ...) } *)
insert_no_storage_caching(dict, self) ==
    IF self.no_storage_caching
    THEN Insert(dict, "no_storage_caching", VBool(self.no_storage_caching))
    ELSE dict

(* if self.no_rpc_rate_limit { dict.insert("no_rpc_rate_limit", ...) } *)
insert_no_rpc_rate_limit(dict, self) ==
    IF self.no_rpc_rate_limit
    THEN Insert(dict, "no_rpc_rate_limit", VBool(self.no_rpc_rate_limit))
    ELSE dict

(* if let Some(fork_url) = &self.fork_url { dict.insert("eth_rpc_url", ...) } *)
insert_fork_url(dict, self) ==
    IF self.fork_url # None
    THEN Insert(dict, "eth_rpc_url", VString(self.fork_url[1]))
    ELSE dict

(* The dict nested under Profile::Default instead of the selected one. *)
profile_map_default(selected, dict) == [p \in {"default"} |-> dict]

(* Map::from([(Config::selected_profile(), dict)]) *)
profile_map(selected, dict) == [p \in {selected} |-> dict]

(* Provider::data(&self), with Config::selected_profile() = selected. *)
data(self, selected) ==
    LET value == Serialize(self)
        error == <<"InvalidType", value[1], "map">>
        dict0 == into_dict(value)
    IN  IF dict0 = None THEN Err(error)
        ELSE LET d1 == insert_verbosity(dict0[1], self)
                 d2 == insert_ffi(d1, self)
                 d3 == insert_no_storage_caching(d2, self)
                 d4 == insert_no_rpc_rate_limit(d3, self)
                 d5 == insert_fork_url(d4, self)
             IN  Ok(profile_map(selected, d5))

(* The message of the error; the back quotes around --fork-url are left out. *)
MissingForkUrl == "Missing --fork-url field."

(* The url defaulted to the empty string instead of the error. *)
ensure_fork_url_or_default(self) ==
    IF self.fork_url = None THEN Ok("") ELSE Ok(self.fork_url[1])

(* self.fork_url.as_ref().wrap_err(..) *)
ensure_fork_url(self) ==
    IF self.fork_url = None THEN Err(MissingForkUrl) ELSE Ok(self.fork_url[1])

----------------------------------------------------------------------------
(* The base configuration: Config::figment(), merge and extraction *)

Profiles == {"default", "ci"}

DefaultMemoryLimit == 33554432

(* The dict Config::default() and the configuration file give a profile. *)
BaseDict(chain, mem, flag) ==
    LET d1 == [memory_limit |-> VNum(mem), ffi |-> VBool(flag),
               no_storage_caching |-> VBool(flag),
               no_rpc_rate_limit |-> VBool(flag),
               verbosity |-> VNum(IF flag THEN 1 ELSE 0),
               gas_limit |-> VNum(9)]
        d2 == SerOpt(d1, "chain_id", chain, "String")
        d3 == IF flag THEN Insert(d2, "eth_rpc_url", VString("http://base"))
              ELSE d2
    IN  IF flag THEN Insert(d3, "compute_units_per_second", VNum(330)) ELSE d3

DefaultDicts ==
    {BaseDict(None, DefaultMemoryLimit, FALSE),
     BaseDict(Some("goerli"), DefaultMemoryLimit, TRUE),
     BaseDict(Some("sepolia"), 2048, FALSE),
     BaseDict(None, 2048, TRUE)}

CiDict == [chain_id |-> VString("sepolia"), memory_limit |-> VNum(4096)]

BaseConfigs ==
    {[p \in {"default"} |-> d] : d \in DefaultDicts}
        \cup {[p \in Profiles |-> IF p = "default" THEN d ELSE CiDict] :
                d \in DefaultDicts}

(* The values of b win over those of a, key by key. *)
Coalesce(a, b) ==
    [k \in DOMAIN a \cup DOMAIN b |-> IF k \in DOMAIN b THEN b[k] ELSE a[k]]

(* Figment::merge: the provider's map is merged profile by profile. *)
Merge(fig, map) ==
    [p \in DOMAIN fig \cup DOMAIN map |->
        IF p \in DOMAIN fig /\ p \in DOMAIN map THEN Coalesce(fig[p], map[p])
        ELSE IF p \in DOMAIN map THEN map[p] ELSE fig[p]]

(* The dict extraction reads: the default profile under the selected one. *)
Selected(fig, selected) ==
    IF selected \in DOMAIN fig THEN Coalesce(fig["default"], fig[selected])
    ELSE fig["default"]

OptOf(d, k) ==
    IF k \in DOMAIN d /\ d[k][1] # "Empty" THEN Some(d[k][2]) ELSE None

(* Config::from_provider: the typed configuration of the selected profile. *)
Extract(fig, selected) ==
    LET d == Selected(fig, selected)
    IN  [chain_id |-> OptOf(d, "chain_id"),
         memory_limit |-> d["memory_limit"][2],
         ffi |-> d["ffi"][2],
         eth_rpc_url |-> OptOf(d, "eth_rpc_url"),
         compute_units_per_second |-> OptOf(d, "compute_units_per_second")]

----------------------------------------------------------------------------
(* The state machine *)

Init ==
    /\ profile \in Profiles
    /\ base \in BaseConfigs
    /\ pending = EvmArgsDefault
    /\ nargs = 0
    /\ vreps = 0
    /\ status = "building"
    /\ args = None
    /\ ncalls = 0
    /\ data_first = None
    /\ data_last = None
    /\ fork_first = None
    /\ fork_last = None
    /\ figment = None
    /\ config = None

GivenField(f, v) ==
    IF f \in EnvOptFields THEN [pending EXCEPT !.env[f] = Some(v)]
    ELSE [pending EXCEPT ![f] = Some(v)]

(* An option with a value: --fork-url URL, --chain-id CHAIN_ID, ...
   An option given twice is an error. *)
ParseOption(f, v) ==
    /\ status = "building"
    /\ nargs < MaxArgs
    /\ nargs' = nargs + 1
    /\ IF Present(pending, f)
       THEN status' = "rejected" /\ pending' = pending
       ELSE status' = status /\ pending' = GivenField(f, v)
    /\ UNCHANGED <<profile, base, vreps, args, ncalls, data_first, data_last,
                   fork_first, fork_last, figment, config>>

(* A boolean flag: --ffi, --no-storage-caching, --no-rpc-rate-limit. *)
ParseFlag(f) ==
    /\ status = "building"
    /\ nargs < MaxArgs
    /\ nargs' = nargs + 1
    /\ IF Present(pending, f)
       THEN status' = "rejected" /\ pending' = pending
       ELSE status' = status /\ pending' = [pending EXCEPT ![f] = TRUE]
    /\ UNCHANGED <<profile, base, vreps, args, ncalls, data_first, data_last,
                   fork_first, fork_last, figment, config>>

(* -v, action = ArgAction::Count on a u8. *)
ParseVerbosityUpTo(limit) ==
    /\ status = "building"
    /\ nargs < limit
    /\ nargs' = nargs + 1
    /\ vreps' = vreps + 1
    /\ pending' = [pending EXCEPT !.verbosity = SaturatingAdd(@)]
    /\ UNCHANGED <<profile, base, status, args, ncalls, data_first, data_last,
                   fork_first, fork_last, figment, config>>

ParseVerbosity == ParseVerbosityUpTo(MaxArgs)

ParseVerbosityRepeated == ParseVerbosityUpTo(MaxReps)

(* End of the command line: the requires constraints are validated. *)
FinishParse ==
    /\ status = "building"
    /\ IF RequiresSatisfied(pending)
       THEN status' = "accepted" /\ args' = Some(pending)
       ELSE status' = "rejected" /\ args' = None
    /\ UNCHANGED <<profile, base, pending, nargs, vreps, ncalls, data_first,
                   data_last, fork_first, fork_last, figment, config>>

(* EvmArgs { ..., ..Default::default() }: no validation. *)
StructLiteral ==
    /\ status = "building"
    /\ status' = "literal"
    /\ args' = Some(pending)
    /\ UNCHANGED <<profile, base, pending, nargs, vreps, ncalls, data_first,
                   data_last, fork_first, fork_last, figment, config>>

(* An overlay exists and has not been consumed by a merge. *)
Constructed == status \in {"accepted", "literal"} /\ figment = None

(* A call of data that takes the fork url out of the overlay. *)
DataTakesForkUrl ==
    /\ Constructed
    /\ ncalls < MaxCalls
    /\ ncalls' = ncalls + 1
    /\ LET r == data(args[1], profile)
       IN  /\ data_first' = IF data_first = None THEN Some(r) ELSE data_first
           /\ data_last' = Some(r)
    /\ args' = Some([args[1] EXCEPT !.fork_url = None])
    /\ UNCHANGED <<profile, base, pending, nargs, vreps, status,
                   fork_first, fork_last, figment, config>>

(* args.data() *)
Data ==
    /\ Constructed
    /\ ncalls < MaxCalls
    /\ ncalls' = ncalls + 1
    /\ LET r == data(args[1], profile)
       IN  /\ data_first' = IF data_first = None THEN Some(r) ELSE data_first
           /\ data_last' = Some(r)
    /\ UNCHANGED <<profile, base, pending, nargs, vreps, status, args,
                   fork_first, fork_last, figment, config>>

(* args.ensure_fork_url() *)
EnsureForkUrl ==
    /\ Constructed
    /\ ncalls < MaxCalls
    /\ ncalls' = ncalls + 1
    /\ LET r == ensure_fork_url(args[1])
       IN  /\ fork_first' = IF fork_first = None THEN Some(r) ELSE fork_first
           /\ fork_last' = Some(r)
    /\ UNCHANGED <<profile, base, pending, nargs, vreps, status, args,
                   data_first, data_last, figment, config>>

(* Config::from_provider(Config::figment().merge(args)): merge calls data
   and the overlay is consumed. *)
MergeExtract ==
    /\ Constructed
    /\ LET r == data(args[1], profile)
       IN  /\ r.ok
           /\ data_first' = IF data_first = None THEN Some(r) ELSE data_first
           /\ data_last' = Some(r)
           /\ figment' = Some(Merge(base, r.val))
           /\ config' = Some(Extract(Merge(base, r.val), profile))
    /\ UNCHANGED <<profile, base, pending, nargs, vreps, status, args, ncalls,
                   fork_first, fork_last>>

Next ==
    \/ \E f \in EvmOptFields \cup EnvOptFields :
          \E v \in FieldValues(f) : ParseOption(f, v)
    \/ \E f \in EvmBoolFields : ParseFlag(f)
    \/ ParseVerbosity
    \/ FinishParse
    \/ StructLiteral
    \/ Data
    \/ EnsureForkUrl
    \/ MergeExtract

Spec == Init /\ [][Next]_vars

(* A command line of repeated verbosity flags only. *)
NextCount ==
    \/ ParseVerbosityRepeated
    \/ FinishParse
    \/ Data

SpecCount == Init /\ [][NextCount]_vars

----------------------------------------------------------------------------
(* Properties *)

Merged == figment # None

DataOk == data_last # None /\ data_last[1].ok

(* The dict of the selected profile in the map the latest data returned. *)
LastDict == data_last[1].val[profile]

(* The configuration key of a field. *)
KeyOf(f) == IF f = "fork_url" THEN "eth_rpc_url" ELSE f

AllFields ==
    EvmOptFields \cup EvmBoolFields \cup EnvOptFields \cup {"verbosity"}

(* C1: an overlay with env.chain_id = Some(c) merged onto any base
   configuration gives a configuration whose chain_id is Some(c). *)
OverrideWins ==
    (Merged /\ args[1].env.chain_id # None)
        => config[1].chain_id = args[1].env.chain_id

OverrideWinsWitness ==
    /\ Merged
    /\ args[1].env.chain_id = Some("mainnet")
    /\ Extract(base, profile).chain_id = Some("sepolia")
    /\ config[1].chain_id = Some("mainnet")

(* C2: for every unset field of the overlay (None, false, 0) the dict
   data returns has no entry under the field's key, and the merge leaves
   the base configuration's value of that key as it was. *)
OnlySetFieldsWritten ==
    /\ DataOk =>
         \A f \in AllFields :
            ~Present(args[1], f) => KeyOf(f) \notin DOMAIN LastDict
    /\ Merged =>
         \A f \in AllFields :
            ~Present(args[1], f) =>
               LET before == Selected(base, profile)
                   after == Selected(figment[1], profile)
               IN  /\ KeyOf(f) \in DOMAIN after <=> KeyOf(f) \in DOMAIN before
                   /\ KeyOf(f) \in DOMAIN after =>
                         after[KeyOf(f)] = before[KeyOf(f)]

(* C3: an overlay whose env.memory_limit is None leaves the memory_limit
   of the base configuration as it was before the merge. *)
MemoryLimitKept ==
    (Merged /\ args[1].env.memory_limit = None)
        => config[1].memory_limit = Extract(base, profile).memory_limit

MemoryLimitKeptWitness ==
    /\ Merged
    /\ args[1].env.memory_limit = None
    /\ args[1].env.chain_id = Some("mainnet")
    /\ config[1].memory_limit = 4096

(* C4: ensure_fork_url fails, with the missing fork url error, exactly
   when fork_url is None, and returns exactly the url when it is Some. *)
EnsureForkUrlOutcome ==
    fork_last # None =>
        LET r == fork_last[1]
            url == args[1].fork_url
        IN  /\ ~r.ok <=> url = None
            /\ ~r.ok => r.val = "Missing --fork-url field."
            /\ url # None => (r.ok /\ r.val = url[1])

EnsureForkUrlWitness ==
    /\ fork_last # None
    /\ ~fork_last[1].ok
    /\ args[1].fork_block_number # None
    /\ args[1].fork_url = None

(* The flags whose help refers to --fork-url. *)
ForkScopedFlags ==
    {"fork_block_number", "fork_retry_backoff", "no_storage_caching",
     "compute_units_per_second", "no_rpc_rate_limit"}

(* C5 as stated: every flag whose help refers to --fork-url requires the
   fork url in an accepted overlay, and a command line giving one without
   the fork url is rejected and yields no overlay. *)
ForkDependencyAsStated ==
    /\ status = "accepted" =>
         \A f \in ForkScopedFlags :
            Present(args[1], f) => Present(args[1], "fork_url")
    /\ (/\ status \in {"accepted", "rejected"}
        /\ \E f \in ForkScopedFlags : Present(pending, f)
        /\ ~Present(pending, "fork_url"))
         => (status = "rejected" /\ args = None)

(* C5, amended: the dependency holds of the four flags declared with
   requires = "fork_url": fork_block_number, fork_retry_backoff,
   compute_units_per_second and no_rpc_rate_limit. *)
ForkDependency ==
    LET Requiring == {"fork_block_number", "fork_retry_backoff",
                      "compute_units_per_second", "no_rpc_rate_limit"}
    IN  /\ status = "accepted" =>
             \A f \in Requiring :
                Present(args[1], f) => Present(args[1], "fork_url")
        /\ (/\ status \in {"accepted", "rejected"}
            /\ \E f \in Requiring : Present(pending, f)
            /\ ~Present(pending, "fork_url"))
             => (status = "rejected" /\ args = None)

ForkDependencyWitness ==
    /\ status = "rejected"
    /\ Present(pending, "compute_units_per_second")
    /\ ~Present(pending, "fork_url")
    /\ nargs = 1
    /\ args = None

(* C6: with fork_url = Some(u) the dict has one entry of the fork url,
   "eth_rpc_url" with value u, none under "fork_url", and the insertion
   after the serialization leaves the serialized dict as it was; with
   fork_url = None the dict has no "eth_rpc_url" entry. *)
ForkUrlEntry ==
    DataOk =>
        LET url == args[1].fork_url
            ser == Serialize(args[1])[2]
        IN  /\ url # None =>
                 /\ {k \in DOMAIN LastDict : LastDict[k] = <<"String", url[1]>>}
                       = {"eth_rpc_url"}
                 /\ "fork_url" \notin DOMAIN LastDict
                 /\ Insert(ser, "eth_rpc_url", <<"String", url[1]>>) = ser
            /\ url = None => "eth_rpc_url" \notin DOMAIN LastDict

ForkUrlEntryWitness ==
    /\ DataOk
    /\ args[1].fork_url = Some("http://a")
    /\ LastDict["eth_rpc_url"] = <<"String", "http://a">>

(* C7: each of ffi, no_storage_caching and no_rpc_rate_limit has an entry
   in the dict exactly when the flag is true, the entry's value is true,
   and a false ffi flag leaves the base configuration's ffi as it was. *)
FlagEntries ==
    /\ DataOk =>
         \A f \in {"ffi", "no_storage_caching", "no_rpc_rate_limit"} :
            /\ f \in DOMAIN LastDict <=> args[1][f] = TRUE
            /\ f \in DOMAIN LastDict => LastDict[f] = <<"Bool", TRUE>>
    /\ (Merged /\ args[1].ffi = FALSE)
         => config[1].ffi = Extract(base, profile).ffi

FlagEntriesWitness ==
    /\ DataOk
    /\ args[1].ffi = TRUE
    /\ args[1].no_storage_caching = FALSE
    /\ "ffi" \in DOMAIN LastDict
    /\ "no_storage_caching" \notin DOMAIN LastDict

(* C8: the dict has a "verbosity" entry exactly when the counter is above
   0, its value is the counter, and n <= 255 repetitions of the flag give
   the counter n. *)
VerbosityEntry ==
    /\ DataOk =>
         /\ "verbosity" \in DOMAIN LastDict <=> args[1].verbosity > 0
         /\ "verbosity" \in DOMAIN LastDict
               => LastDict["verbosity"] = <<"Num", args[1].verbosity>>
    /\ (status = "accepted" /\ vreps <= 255) => args[1].verbosity = vreps

VerbosityEntryWitness ==
    /\ DataOk
    /\ vreps = 255
    /\ LastDict["verbosity"] = <<"Num", 255>>

(* C9: the map data returns has the selected profile as its only key, and
   the merge changes no other profile of the base configuration. *)
OneProfile ==
    /\ DataOk => DOMAIN data_last[1].val = {profile}
    /\ Merged =>
         /\ DOMAIN figment[1] = DOMAIN base \cup {profile}
         /\ \A p \in DOMAIN figment[1] \ {profile} : figment[1][p] = base[p]

OneProfileWitness ==
    /\ DataOk
    /\ Merged
    /\ profile = "ci"
    /\ DOMAIN base = {"default"}
    /\ args[1].env.chain_id # None
    /\ figment[1]["ci"]["chain_id"] = <<"String", args[1].env.chain_id[1]>>

(* C10: data and ensure_fork_url leave the overlay as constructed, every
   call of data returns what the first returned and every call of
   ensure_fork_url has the outcome of the first. *)
OverlayImmutable ==
    /\ status \in {"accepted", "literal"} => args = Some(pending)
    /\ data_first # None => data_last = data_first
    /\ fork_first # None => fork_last = fork_first

OverlayImmutableWitness ==
    /\ ncalls = 3
    /\ data_first # None
    /\ fork_first # None
    /\ Merged
    /\ args[1].fork_url # None

====
